---- MODULE Spec2Model ----
(***************************************************************************)
(* Model of scraper.py: the crawl of legislation.gov.uk by main(), with    *)
(* fetchHTML, fetchAvailableYears, fetchAvailablePages and the two HTML    *)
(* extraction helpers.                                                     *)
(*                                                                         *)
(* Strings are sequences of tokens.  The tokens are strings none of which  *)
(* is a prefix of another, so that a token sequence stands for exactly one *)
(* character string, concatenation is \o, and Python's str comparison is   *)
(* the lexicographic order of the token sequences under TokenOrder.        *)
(***************************************************************************)
EXTENDS Integers, Sequences, FiniteSets, TLC

(* ------------------------------ bounds --------------------------------- *)

\* Number of entries of LEGISLATION_TYPES the model walks through.
NumTypes == 2
\* Number of times the program is started on the same disk.
MaxRuns == 2
\* Largest number of links in one region of a page (timeline, table, nav).
MaxLinks == 2

(* --------------------------- program constants ------------------------- *)

BASE_URL == <<"http:", "/", "/", "www.legislation.gov.uk">>
UNAVAILABLE_TEXT == "UNAVAILABLE_TEXT"
COULDNT_FIND_TEXT == "COULDNT_FIND_TEXT"
INVALID_TEXT == "INVALID_TEXT"
DATA_DIR == "legislation_data"

\* The table flattened in iteration order: <<category, type>>.
ALL_LEGISLATION_TYPES ==
    << <<"Primary Legislation", "ukpga">>,
       <<"Primary Legislation", "ukla">>,
       <<"Primary Legislation", "ukppa">>,
       <<"Primary Legislation", "gbla">> >>

LEGISLATION_TYPES == SubSeq(ALL_LEGISLATION_TYPES, 1, NumTypes)

(* ------------------------------ strings -------------------------------- *)

\* The tokens in ascending order of their character strings (code points).
TokenOrder ==
    << "-", ".html", "/", "1", "2020", "2021", "?page=2", "data.html",
       "http:", "ukpga", "www.legislation.gov.uk" >>

Rank(t) == CHOOSE i \in 1..Len(TokenOrder) : TokenOrder[i] = t

Min(a, b) == IF a < b THEN a ELSE b

\* Python: a < b on str.
RECURSIVE StrLess(_, _)
StrLess(a, b) ==
    IF b = <<>> THEN FALSE
    ELSE IF a = <<>> THEN TRUE
    ELSE IF Head(a) = Head(b) THEN StrLess(Tail(a), Tail(b))
    ELSE Rank(Head(a)) < Rank(Head(b))

\* Python: sorted(S) for a set of str.
RECURSIVE Sorted(_)
Sorted(S) ==
    IF S = {} THEN <<>>
    ELSE LET m == CHOOSE x \in S : \A y \in S \ {x} : StrLess(x, y)
         IN  <<m>> \o Sorted(S \ {m})

\* Python: c in s, for a one-token c.
Contains(s, c) == \E i \in 1..Len(s) : s[i] = c

\* Python: s.split(sep), for a one-token sep.
RECURSIVE Split(_, _)
Split(s, sep) ==
    IF ~Contains(s, sep) THEN <<s>>
    ELSE LET i == CHOOSE k \in 1..Len(s) :
                     s[k] = sep /\ \A j \in 1..(k - 1) : s[j] # sep
         IN  <<SubSeq(s, 1, i - 1)>> \o Split(SubSeq(s, i + 1, Len(s)), sep)

\* Python: xs[lo:hi] (0-based, hi exclusive).
Slice(xs, lo, hi) == SubSeq(xs, lo + 1, Min(hi, Len(xs)))

\* Python: sep.join(xs), for a one-token sep.
RECURSIVE Join(_, _)
Join(xs, sep) ==
    IF xs = <<>> THEN <<>>
    ELSE IF Len(xs) = 1 THEN xs[1]
    ELSE xs[1] \o <<sep>> \o Join(Tail(xs), sep)

\* urllib.parse.urljoin(BASE_URL, href): an absolute URL stands, a rooted
\* path replaces the (empty) path of the origin, any other reference is
\* taken relative to the root.
UrlJoin(href) ==
    IF href = <<>> THEN BASE_URL
    ELSE IF Head(href) = "http:" THEN href
    ELSE IF Head(href) = "/" THEN BASE_URL \o href
    ELSE BASE_URL \o <<"/">> \o href

(* ------------------------- the remote site ----------------------------- *)

SeqsUpTo(S, n) == UNION {[1..k -> S] : k \in 0..n}

\* A region of a parsed page: soup.find(...) found it or returned None, and
\* the hrefs of the links in it, in document order.
NoRegion == [found |-> FALSE, links |-> <<>>]
Regions(Hrefs) == {NoRegion} \cup [found : {TRUE}, links : SeqsUpTo(Hrefs, MaxLinks)]

\* hrefs the timeline region holds in a run of main: a year and a
\* hyphenated range of years.
YearHrefs ==
    { <<"/", "ukpga", "/", "2020">>,
      <<"/", "ukpga", "/", "2020", "-", "2021">> }

\* hrefs a timeline region is given when fetchAvailableYears is called on
\* its own: those, another year, and a year written as a path relative to
\* the site root.
TimelineHrefs ==
    YearHrefs \cup { <<"/", "ukpga", "/", "2021">>, <<"ukpga", "/", "2020">> }

\* hrefs a listing table holds: one document.
DocHrefs == { <<"/", "ukpga", "/", "2020", "/", "1">> }

\* hrefs a listing table holds on a site with twins: that document and one
\* with another URL and the same file name (2020-2020-1-data.html.html).
TwinDocHrefs == DocHrefs \cup { <<"/", "ukpga", "/", "2020", "-", "1">> }

\* hrefs the table cells hold when lines 92-93 are run on their own: the
\* twins and a document whose number holds a hyphen.
CallDocHrefs == TwinDocHrefs \cup { <<"/", "ukpga", "/", "2020", "/", "1", "-", "1">> }

\* hrefs a pagination region holds: the starting page itself and a second
\* page.
NavHrefs ==
    { <<"/", "ukpga", "/", "2020">>,
      <<"/", "ukpga", "/", "2020", "?page=2">> }

\* The parsed index page of a type: div#timelineData and its a[href].
IndexPages == [timeline : Regions(YearHrefs)]
AnyIndexPages == [timeline : Regions(TimelineHrefs)]

\* A parsed listing page: the td a[href] of div#content, and the a[href] of
\* div.prevPagesNextNav.
ListingPages == [content : Regions(DocHrefs), nav : Regions(NavHrefs)]
TwinListingPages == [content : Regions(TwinDocHrefs), nav : Regions(NavHrefs)]

\* The text of a document's data page.
DocPages == {"data"}

Markers == {UNAVAILABLE_TEXT, COULDNT_FIND_TEXT, INVALID_TEXT}
StatusCodes == {200, 404, 500}

\* requests.get raising a requests.exceptions.RequestException.
TransportError == [exc |-> TRUE, status |-> 0, marks |-> {}]

\* What requests.get(url) can come back with: an exception, or a status
\* code and a text; marks are the marker texts the text contains, and the
\* page the text parses to is drawn beside the response.
Responses ==
    {TransportError} \cup
    [exc : {FALSE}, status : StatusCodes, marks : SUBSET Markers]

(* ------------------------------ fetchHTML ------------------------------ *)

Return(v) == [kind |-> "return", val |-> v, exc |-> "", msg |-> ""]
Raise(e, m) == [kind |-> "raise", val |-> <<>>, exc |-> e, msg |-> m]

\* response.text of a response that arrived.
Text(resp, page) == [marks |-> resp.marks, page |-> page]

\* fetchHTML with the test of line 38 left out.
fetchHTML_NoInvalidTest(resp, page) ==
    IF resp.exc THEN Raise("ValueError", "something else")
    ELSE IF \/ UNAVAILABLE_TEXT \in resp.marks
            \/ resp.status # 200
            \/ COULDNT_FIND_TEXT \in resp.marks
         THEN Raise("ValueError", "unavailable")
    ELSE Return(Text(resp, page))

\* fetchHTML with the except clause of lines 41-42 left out.
fetchHTML_NoExcept(resp, page) ==
    IF resp.exc THEN Raise("RequestException", "")
    ELSE IF \/ UNAVAILABLE_TEXT \in resp.marks
            \/ resp.status # 200
            \/ COULDNT_FIND_TEXT \in resp.marks
         THEN Raise("ValueError", "unavailable")
    ELSE IF INVALID_TEXT \in resp.marks
         THEN Raise("ValueError", "invalid text")
    ELSE Return(Text(resp, page))

fetchHTML(resp, page) ==
    IF resp.exc THEN Raise("ValueError", "something else")
    ELSE IF \/ UNAVAILABLE_TEXT \in resp.marks
            \/ resp.status = 500
            \/ resp.status # 200
            \/ COULDNT_FIND_TEXT \in resp.marks
         THEN Raise("ValueError", "unavailable")
    ELSE IF INVALID_TEXT \in resp.marks
         THEN Raise("ValueError", "invalid text")
    ELSE Return(Text(resp, page))

\* The request fetchHTML issues: time.sleep(1), then requests.get(url);
\* raised tells whether the call ended in an exception.
SleptRequest(url, raised) == [url |-> url, slept |-> TRUE, raised |-> raised]
\* The request fetchAvailablePages issues: requests.get(url) alone.
DirectRequest(url, raised) == [url |-> url, slept |-> FALSE, raised |-> raised]
NoRequest == [url |-> <<>>, slept |-> FALSE, raised |-> FALSE]

(* -------------------------- fetchAvailableYears ------------------------ *)

NoHyphen(href) == ~Contains(href, "-")

YearURLsOf(hrefs) ==
    LET kept == SelectSeq(hrefs, NoHyphen)
    IN  [i \in 1..Len(kept) |-> BASE_URL \o kept[i]]

\* fetchAvailableYears catching the failure of fetchHTML and returning [].
fetchAvailableYears_Caught(resp, page) ==
    LET html == fetchHTML(resp, page)
    IN  IF html.kind = "raise" THEN Return(<<>>)
        ELSE IF ~html.val.page.timeline.found
             THEN Raise("AttributeError", "NoneType has no find_all")
        ELSE Return(YearURLsOf(html.val.page.timeline.links))

fetchAvailableYears(resp, page) ==
    LET html == fetchHTML(resp, page)
    IN  IF html.kind = "raise" THEN html
        ELSE IF ~html.val.page.timeline.found
             THEN Raise("AttributeError", "NoneType has no find_all")
        ELSE Return(YearURLsOf(html.val.page.timeline.links))

(* --------------------------- fetchAvailablePages ----------------------- *)

Range(s) == {s[i] : i \in 1..Len(s)}

\* extract_table_hrefs stopping at the first link of the table.
extract_table_hrefs_FirstOnly(page) ==
    IF ~page.content.found \/ page.content.links = <<>> THEN <<>>
    ELSE <<Head(page.content.links)>>

extract_table_hrefs(page) ==
    IF ~page.content.found THEN <<>> ELSE page.content.links

\* The result is list(set(links)): its order is not determined, so the
\* model keeps the set and visits it in any order.
extract_pagination_links(page) ==
    IF ~page.nav.found THEN {}
    ELSE {UrlJoin(page.nav.links[i]) : i \in 1..Len(page.nav.links)}

\* fetchListing catching the exception and taking the page for empty.
fetchListing_Caught(resp, page) ==
    IF resp.exc THEN Return([hrefs |-> {}, links |-> {}])
    ELSE Return([hrefs |-> Range(extract_table_hrefs(page)),
                 links |-> extract_pagination_links(page)])

\* Lines 77-84 and 88-90: requests.get, the parse, the two extractions.  A
\* RequestException is not caught; the status code is not looked at.
fetchListing(resp, page) ==
    IF resp.exc THEN Raise("RequestException", "")
    ELSE Return([hrefs |-> Range(extract_table_hrefs(page)),
                 links |-> extract_pagination_links(page)])

DocumentURL(href) == BASE_URL \o href \o <<"/", "data.html">>

DocumentURLs(hrefs) ==
    LET srt == Sorted(hrefs)
    IN  [i \in 1..Len(srt) |-> DocumentURL(srt[i])]

(* --------------------------------- paths ------------------------------- *)

Last(s) == s[Len(s)]

YearOf(yearURL) == Last(Split(yearURL, "/"))

DirPath(entry) == <<DATA_DIR, entry[1], entry[2]>>

FileName(year, pageURL) ==
    year \o <<"-">> \o Join(Slice(Split(pageURL, "/"), 4, 7), "-") \o <<".html">>

FilePath(dir, name) == [dir |-> dir, name |-> name]

ErrorFile(dir) == FilePath(dir, <<"errorURL.txt">>)

\* Line 121 writing nothing.
ErrorLines_None(errs) == <<>>

\* Line 121: what is written to errorURL.txt.
ErrorLines(errs) == Join(errs, "\n")

(* --------------------- what the calls can come to ---------------------- *)

\* The results of the fetching calls over every response and page; fetched
\* tells how the call of fetchHTML inside fetchAvailableYears ended.
YearsResults ==
    {[fetched |-> fetchHTML(resp, page).kind,
      years   |-> fetchAvailableYears(resp, page)] :
        resp \in Responses, page \in IndexPages}

\* What the page that came back held: the hrefs of its table cells and of
\* its pagination region, as they stand in the page; nothing when no page
\* came back.
Served(resp, page) ==
    IF resp.exc THEN [cells |-> {}, nav |-> {}]
    ELSE [cells |-> Range(page.content.links), nav |-> Range(page.nav.links)]

\* raised tells whether requests.get raised.
ListingResults ==
    {[raised |-> resp.exc, listing |-> fetchListing(resp, page),
      served |-> Served(resp, page)] :
        resp \in Responses, page \in ListingPages}

TwinListingResults ==
    {[raised |-> resp.exc, listing |-> fetchListing(resp, page),
      served |-> Served(resp, page)] :
        resp \in Responses, page \in TwinListingPages}

DocResults ==
    {fetchHTML(resp, page) : resp \in Responses, page \in DocPages}

(* -------------------------------- state -------------------------------- *)

VARIABLES
    run,        \* which start of the program this is
    pc,         \* where main is: "types", "years", "pages", "docs",
                \* "done" (main returned), "raised" (an exception left main)
                \* or "killed" (the process was terminated)
    ti,         \* index in LEGISLATION_TYPES of the type being processed
    yearURLs,   \* the year URLs the loop of line 103 has still to visit
    yearURL,    \* the year being processed
    all_hrefs,  \* fetchAvailablePages: hrefs gathered so far
    page_urls,  \* fetchAvailablePages: pagination pages still to fetch
    pageURLs,   \* the document URLs the loop of line 108 has still to visit
    errorURLs,  \* the current type's error list
    dirs,       \* the directories on disk
    files,      \* the files on disk: path -> contents
    exc,        \* the exception that left main, "" if none
    step,       \* the step main took last
    req,        \* the network request that step issued, NoRequest if none
    wrote,      \* the path that step opened for writing, NoPath if none
    failed,     \* history: the document URLs whose fetch failed since the
                \* processing of the current type began, in order
    visit,      \* history: the call of fetchAvailablePages under way or
                \* just returned: the URLs it requested, in order, and what
                \* the pages held; forgotten at the next step of main
    clean,      \* history: every document this run came to so far was
                \* fetched and written (none failed, none was passed over)
    prior,      \* history: the run before this one returned from main with
                \* every document it came to fetched and written
    listed,     \* history: the documents fetchAvailablePages returned since
                \* the processing of the current type began, each with the
                \* file path main derives for it; forgotten when the type ends
    call        \* a function called on its own: its inputs and its result

\* The history variables that only the steps they are about change.
obs == <<visit, clean, prior, listed>>

mainvars == <<run, pc, ti, yearURLs, yearURL, all_hrefs, page_urls, pageURLs,
              errorURLs, dirs, files, exc, step, req, wrote, failed, obs>>

vars == <<mainvars, call>>

NoPath == FilePath(<<>>, <<>>)

\* No call of fetchAvailablePages under way or just returned.
NoVisit == [urls |-> <<>>, nav |-> {}, cells |-> {}]

NoCall ==
    [fn |-> "", resp |-> TransportError, page |-> [timeline |-> NoRegion],
     hrefs |-> {}, out |-> Return(<<>>)]

\* The test of line 110 never finding the file.
ExistsNever(path) == FALSE

\* Line 110: os.path.exists(path).
Exists(path) == path \in DOMAIN files

\* Lines 114-115 and 120-121: open(path, "w") and f.write(contents).
WriteFile(fs, path, contents) ==
    [q \in (DOMAIN fs) \cup {path} |-> IF q = path THEN contents ELSE fs[q]]

\* The error list made once, before the loop over the types.
SameErrorList(errs) == errs

\* Line 102: errorURLs = [], inside the loop over the types.
NewErrorList(errs) == <<>>

Entry == LEGISLATION_TYPES[ti]

\* file_path of line 109 for the document at the head of pageURLs.
file_path == FilePath(DirPath(Entry), FileName(YearOf(yearURL), Head(pageURLs)))

InitMain ==
    /\ run = 1
    /\ pc = "types"
    /\ ti = 1
    /\ yearURLs = <<>>
    /\ yearURL = <<>>
    /\ all_hrefs = {}
    /\ page_urls = {}
    /\ pageURLs = <<>>
    /\ errorURLs = <<>>
    /\ dirs = {}
    /\ files = [q \in {} |-> <<>>]
    /\ exc = ""
    /\ step = "start"
    /\ req = NoRequest
    /\ wrote = NoPath
    /\ failed = <<>>
    /\ visit = NoVisit
    /\ clean = TRUE
    /\ prior = FALSE
    /\ listed = {}

Init == InitMain /\ call = NoCall

(* ------------------------------- main ---------------------------------- *)

\* Lines 99-102: the next type; fetchAvailableYears and a fresh error list.
Years ==
    /\ pc = "types"
    /\ ti <= Len(LEGISLATION_TYPES)
    /\ \E r \in YearsResults :
         /\ req' = SleptRequest(BASE_URL \o <<"/", Entry[2]>>, r.fetched = "raise")
         /\ IF r.years.kind = "raise"
            THEN /\ pc' = "raised"
                 /\ exc' = r.years.exc
                 /\ step' = "years_raised"
                 /\ UNCHANGED <<yearURLs, errorURLs>>
            ELSE /\ pc' = "years"
                 /\ yearURLs' = r.years.val
                 /\ errorURLs' = NewErrorList(errorURLs)
                 /\ step' = "years"
                 /\ UNCHANGED exc
    /\ wrote' = NoPath
    /\ failed' = <<>>
    /\ listed' = {}
    /\ UNCHANGED <<run, ti, yearURL, all_hrefs, page_urls, pageURLs, dirs, files,
                   visit, clean, prior, call>>

\* Lines 103-104 and 74-84: the next year; fetchAvailablePages fetches the
\* first listing page and reads its table and its pagination links.
FirstPageFrom(results) ==
    /\ pc = "years"
    /\ yearURLs # <<>>
    /\ \E r \in results :
         /\ req' = DirectRequest(Head(yearURLs), r.raised)
         /\ visit' = [urls |-> <<Head(yearURLs)>>, nav |-> r.served.nav,
                      cells |-> r.served.cells]
         /\ IF r.listing.kind = "raise"
            THEN /\ pc' = "raised"
                 /\ exc' = r.listing.exc
                 /\ step' = "page_raised"
                 /\ UNCHANGED <<yearURLs, yearURL, all_hrefs, page_urls>>
            ELSE /\ pc' = "pages"
                 /\ yearURL' = Head(yearURLs)
                 /\ yearURLs' = Tail(yearURLs)
                 /\ all_hrefs' = r.listing.val.hrefs
                 /\ page_urls' = r.listing.val.links
                 /\ step' = "first_page"
                 /\ UNCHANGED exc
    /\ wrote' = NoPath
    /\ UNCHANGED <<run, ti, pageURLs, errorURLs, dirs, files, failed, clean,
                   prior, listed, call>>

\* Lines 87-90: one more listing page.
NextPageFrom(results) ==
    /\ pc = "pages"
    /\ \E url \in page_urls, r \in results :
         /\ req' = DirectRequest(url, r.raised)
         /\ visit' = [visit EXCEPT !.urls = Append(@, url),
                                   !.cells = @ \cup r.served.cells]
         /\ IF r.listing.kind = "raise"
            THEN /\ pc' = "raised"
                 /\ exc' = r.listing.exc
                 /\ step' = "page_raised"
                 /\ UNCHANGED <<all_hrefs, page_urls>>
            ELSE /\ all_hrefs' = all_hrefs \cup r.listing.val.hrefs
                 /\ page_urls' = page_urls \ {url}
                 /\ step' = "next_page"
                 /\ UNCHANGED <<pc, exc>>
    /\ wrote' = NoPath
    /\ UNCHANGED <<run, ti, yearURLs, yearURL, pageURLs, errorURLs, dirs, files,
                   failed, clean, prior, listed, call>>

FirstPage == FirstPageFrom(ListingResults)
NextPage == NextPageFrom(ListingResults)

\* The same two steps on a site whose listings may hold the twins.
TwinFirstPage == FirstPageFrom(TwinListingResults)
TwinNextPage == NextPageFrom(TwinListingResults)

\* Lines 92-93 and 105-107: fetchAvailablePages returns the sorted document
\* URLs; main makes the type's directory.
Listed ==
    /\ pc = "pages"
    /\ page_urls = {}
    /\ pageURLs' = DocumentURLs(all_hrefs)
    /\ listed' = listed \cup
         {[url |-> u, path |-> FilePath(DirPath(Entry), FileName(YearOf(yearURL), u))] :
            u \in Range(pageURLs')}
    /\ dirs' = dirs \cup {DirPath(Entry)}
    /\ all_hrefs' = {}
    /\ pc' = "docs"
    /\ step' = "listed"
    /\ req' = NoRequest
    /\ wrote' = NoPath
    /\ UNCHANGED <<run, ti, yearURLs, yearURL, page_urls, errorURLs, files, exc,
                   failed, visit, clean, prior, call>>

\* Lines 108-111: the file of the next document exists.
Skip ==
    /\ pc = "docs"
    /\ pageURLs # <<>>
    /\ Exists(file_path)
    /\ pageURLs' = Tail(pageURLs)
    /\ step' = "skip"
    /\ req' = NoRequest
    /\ wrote' = NoPath
    /\ clean' = FALSE
    /\ visit' = NoVisit
    /\ UNCHANGED <<run, pc, ti, yearURLs, yearURL, all_hrefs, page_urls,
                   errorURLs, dirs, files, exc, failed, prior, listed, call>>

\* Lines 108-117: the next document is fetched and written, or its URL
\* joins the error list; an exception other than ValueError leaves main.
Download ==
    /\ pc = "docs"
    /\ pageURLs # <<>>
    /\ ~Exists(file_path)
    /\ \E html \in DocResults :
         /\ req' = SleptRequest(Head(pageURLs), html.kind = "raise")
         /\ clean' = (clean /\ html.kind = "return")
         /\ IF html.kind = "return"
            THEN /\ files' = WriteFile(files, file_path, html.val)
                 /\ wrote' = file_path
                 /\ step' = "written"
                 /\ pageURLs' = Tail(pageURLs)
                 /\ UNCHANGED <<pc, exc, errorURLs, failed>>
            ELSE /\ failed' = Append(failed, Head(pageURLs))
                 /\ wrote' = NoPath
                 /\ UNCHANGED files
                 /\ IF html.exc = "ValueError"
                    THEN /\ errorURLs' = Append(errorURLs, Head(pageURLs))
                         /\ step' = "failed"
                         /\ pageURLs' = Tail(pageURLs)
                         /\ UNCHANGED <<pc, exc>>
                    ELSE /\ pc' = "raised"
                         /\ exc' = html.exc
                         /\ step' = "doc_raised"
                         /\ UNCHANGED <<errorURLs, pageURLs>>
    /\ visit' = NoVisit
    /\ UNCHANGED <<run, ti, yearURLs, yearURL, all_hrefs, page_urls, dirs, prior,
                   listed, call>>

\* Line 108 exhausted: back to the loop over the years.
YearDone ==
    /\ pc = "docs"
    /\ pageURLs = <<>>
    /\ pc' = "years"
    /\ step' = "year_done"
    /\ req' = NoRequest
    /\ wrote' = NoPath
    /\ visit' = NoVisit
    /\ UNCHANGED <<run, ti, yearURLs, yearURL, all_hrefs, page_urls, pageURLs,
                   errorURLs, dirs, files, exc, failed, clean, prior, listed,
                   call>>

\* Lines 118-121: the years of the type are exhausted; the error list, if
\* not empty, replaces errorURL.txt.  Then the next type, or main returns.
TypeDone ==
    /\ pc = "years"
    /\ yearURLs = <<>>
    /\ IF errorURLs # <<>>
       THEN /\ files' = WriteFile(files, ErrorFile(DirPath(Entry)),
                                  ErrorLines(errorURLs))
            /\ wrote' = ErrorFile(DirPath(Entry))
            /\ step' = "errors_written"
       ELSE /\ wrote' = NoPath
            /\ step' = "type_done"
            /\ UNCHANGED files
    /\ ti' = ti + 1
    /\ pc' = IF ti = Len(LEGISLATION_TYPES) THEN "done" ELSE "types"
    /\ req' = NoRequest
    /\ listed' = {}
    /\ UNCHANGED <<run, yearURLs, yearURL, all_hrefs, page_urls, pageURLs,
                   errorURLs, dirs, exc, failed, visit, clean, prior, call>>

\* The program is started again on the same disk.
Rerun ==
    /\ pc \in {"done", "raised", "killed"}
    /\ run < MaxRuns
    /\ run' = run + 1
    /\ pc' = "types"
    /\ ti' = 1
    /\ yearURLs' = <<>>
    /\ yearURL' = <<>>
    /\ all_hrefs' = {}
    /\ page_urls' = {}
    /\ pageURLs' = <<>>
    /\ errorURLs' = <<>>
    /\ exc' = ""
    /\ step' = "start"
    /\ req' = NoRequest
    /\ wrote' = NoPath
    /\ failed' = <<>>
    /\ visit' = NoVisit
    /\ clean' = TRUE
    /\ prior' = (pc = "done" /\ clean)
    /\ listed' = {}
    /\ UNCHANGED <<dirs, files, call>>

Next ==
    \/ Years
    \/ FirstPage
    \/ NextPage
    \/ Listed
    \/ Skip
    \/ Download
    \/ YearDone
    \/ TypeDone
    \/ Rerun

Spec == Init /\ [][Next]_vars

\* main on a site whose listings may hold two documents with one file name.
NextTwins ==
    \/ Years
    \/ TwinFirstPage
    \/ TwinNextPage
    \/ Listed
    \/ Skip
    \/ Download
    \/ YearDone
    \/ TypeDone
    \/ Rerun

SpecTwins == Init /\ [][NextTwins]_vars

(* ------------------------ process termination ------------------------- *)

\* The text of a file that open(path, "w") made and nothing was written to.
EmptyText == [marks |-> {}, page |-> ""]

\* The process is terminated between two steps of main.
Kill ==
    /\ pc \in {"types", "years", "pages", "docs"}
    /\ pc' = "killed"
    /\ step' = "killed"
    /\ req' = NoRequest
    /\ wrote' = NoPath
    /\ UNCHANGED <<run, ti, yearURLs, yearURL, all_hrefs, page_urls, pageURLs,
                   errorURLs, dirs, files, exc, failed, obs, call>>

\* Lines 113-115: the document was fetched and open(file_path, "w") made the
\* file; the process is terminated before f.write(html) reaches the disk.
KillInWrite ==
    /\ pc = "docs"
    /\ pageURLs # <<>>
    /\ ~Exists(file_path)
    /\ \E html \in DocResults : html.kind = "return"
    /\ req' = SleptRequest(Head(pageURLs), FALSE)
    /\ files' = WriteFile(files, file_path, EmptyText)
    /\ wrote' = file_path
    /\ pc' = "killed"
    /\ step' = "killed_in_write"
    /\ clean' = FALSE
    /\ UNCHANGED <<run, ti, yearURLs, yearURL, all_hrefs, page_urls, pageURLs,
                   errorURLs, dirs, exc, failed, visit, prior, listed, call>>

\* Lines 118-121: the same between the open and the write of errorURL.txt.
KillInErrorWrite ==
    /\ pc = "years"
    /\ yearURLs = <<>>
    /\ errorURLs # <<>>
    /\ files' = WriteFile(files, ErrorFile(DirPath(Entry)), <<>>)
    /\ wrote' = ErrorFile(DirPath(Entry))
    /\ pc' = "killed"
    /\ step' = "killed_in_write"
    /\ req' = NoRequest
    /\ UNCHANGED <<run, ti, yearURLs, yearURL, all_hrefs, page_urls, pageURLs,
                   errorURLs, dirs, exc, failed, obs, call>>

\* main with the process terminated at any point and started again.
NextKill ==
    \/ Years
    \/ FirstPage
    \/ NextPage
    \/ Listed
    \/ Skip
    \/ Download
    \/ YearDone
    \/ TypeDone
    \/ Rerun
    \/ Kill
    \/ KillInWrite
    \/ KillInErrorWrite

SpecKill == Init /\ [][NextKill]_vars

(* ------------------- functions called on their own --------------------- *)

\* Before any call: every response and every index page, or every set of
\* hrefs gathered from the listing pages.
InitCalls ==
    /\ InitMain
    /\ call \in [fn : {""}, resp : Responses, page : AnyIndexPages,
                  hrefs : {{}}, out : {Return(<<>>)}]
                 \cup [fn : {""}, resp : {NoCall.resp}, page : {NoCall.page},
                       hrefs : SUBSET CallDocHrefs, out : {Return(<<>>)}]

CallFetchHTML ==
    /\ call.fn = ""
    /\ call' = [call EXCEPT !.fn = "fetchHTML",
                            !.out = fetchHTML(call.resp, call.page)]
    /\ UNCHANGED mainvars

CallFetchAvailableYears ==
    /\ call.fn = ""
    /\ call' = [call EXCEPT !.fn = "fetchAvailableYears",
                            !.out = fetchAvailableYears(call.resp, call.page)]
    /\ UNCHANGED mainvars

\* Lines 92-93 on the hrefs gathered.
CallDocumentURLs ==
    /\ call.fn = ""
    /\ call' = [call EXCEPT !.fn = "DocumentURLs",
                            !.out = Return(DocumentURLs(call.hrefs))]
    /\ UNCHANGED mainvars

NextCalls ==
    \/ CallFetchHTML
    \/ CallFetchAvailableYears
    \/ CallDocumentURLs

SpecCalls == InitCalls /\ [][NextCalls]_vars

(* ------------------------------- claims -------------------------------- *)

\* A path of a document file (not errorURL.txt).  The disk is empty when the
\* first run starts and nothing is ever deleted, so a document path is on
\* disk exactly when some earlier step wrote it.
IsDocPath(path) == path # NoPath /\ path.name # <<"errorURL.txt">>

NoDuplicates(xs) == \A i, j \in 1..Len(xs) : xs[i] = xs[j] => i = j

\* C1: whenever main reaches a document whose derived file path is on disk,
\* the step it takes issues no request, opens no file and leaves every file
\* as it is.
C1_ExistingFileSkipped ==
    [][ (pc = "docs" /\ pageURLs # <<>> /\ file_path \in DOMAIN files)
          => (req' = NoRequest /\ wrote' = NoPath /\ files' = files) ]_vars

\* C1 witness: in a second run a document found on disk has been passed over.
C1_Witness == run = 2 /\ step = "skip" /\ req = NoRequest /\ wrote = NoPath

\* C2: no step of any run opens for writing a document path that is on disk
\* (that an earlier step wrote), and every such file keeps its contents.
C2_NeverOverwritten ==
    [][ \A path \in DOMAIN files :
            IsDocPath(path) =>
                /\ wrote' # path
                /\ path \in DOMAIN files'
                /\ files'[path] = files[path] ]_vars

\* C2 witness: in the first year of the first type of the first run, a
\* document is passed over: its path was written in this same year, for
\* the other DocumentURL of the twins.
C2_Witness ==
    /\ run = 1 /\ ti = 1 /\ step = "skip"
    /\ Len(yearURLs) = MaxLinks - 1
    /\ Cardinality(DOMAIN files) = 1

\* C3: every request a step issues comes after the delay.
C3_DelayBeforeEveryRequest == req # NoRequest => req.slept

\* C5: when the fetch of a document fails, its URL is appended to the error
\* list and main stays in the loop with the rest of the documents and years:
\* nothing leaves main.
C5_DocumentFailureRecovered ==
    [][ (pc = "docs" /\ req'.raised)
          => /\ errorURLs' = Append(errorURLs, Head(pageURLs))
             /\ pageURLs' = Tail(pageURLs)
             /\ pc' = "docs"
             /\ exc' = ""
             /\ UNCHANGED <<ti, yearURLs, files>> ]_vars

\* C5 witness: a fetch has failed with documents and years still to come.
C5_Witness ==
    /\ step = "failed" /\ req.raised
    /\ pageURLs # <<>> /\ yearURLs # <<>>
    /\ Last(errorURLs) = req.url

\* The error file of the type whose processing just ended.
EndedErrorFile == ErrorFile(DirPath(LEGISLATION_TYPES[ti - 1]))

\* C6 as stated: when a type ends, errorURL.txt is written exactly when a
\* fetch failed, and then its lines are the failed URLs, each exactly once.
C6_EachFailedURLOnce ==
    /\ step = "type_done" => failed = <<>>
    /\ step = "errors_written" =>
         /\ failed # <<>>
         /\ wrote = EndedErrorFile
         /\ LET lines == Split(files[EndedErrorFile], "\n")
            IN  Range(lines) = Range(failed) /\ NoDuplicates(lines)

\* C6 amended: when a type ends, errorURL.txt of the type is opened exactly
\* when a fetch failed during the type's processing; with no failure no file
\* changes; with failures its new contents are one line per failed fetch of
\* this type, in order of failure, and no other file changes.
C6_ErrorFileHoldsFailures ==
    [][ (pc = "years" /\ yearURLs = <<>>)
          => LET ef == ErrorFile(DirPath(Entry))
             IN  /\ (wrote' = ef) <=> (failed # <<>>)
                 /\ failed = <<>> => (wrote' = NoPath /\ files' = files)
                 /\ failed # <<>> =>
                      /\ Split(files'[ef], "\n") = failed
                      /\ \A path \in DOMAIN files :
                            path # ef => /\ path \in DOMAIN files'
                                         /\ files'[path] = files[path] ]_vars

\* C6 witness: the second run has replaced the error file of the second
\* type, and the first type has an error file with other contents.
C6_Witness ==
    /\ run = 2 /\ step = "errors_written" /\ ti = Len(LEGISLATION_TYPES) + 1
    /\ ErrorFile(DirPath(LEGISLATION_TYPES[1])) \in DOMAIN files
    /\ files[ErrorFile(DirPath(LEGISLATION_TYPES[1]))] # files[EndedErrorFile]
    /\ Len(failed) > 1

\* C7: when the fetch of a type's index page fails, the ValueError leaves
\* main with no file and no directory made; once an exception has left
\* main, the run does nothing more.
C7_IndexFailurePropagates ==
    [][ /\ (pc = "types" /\ req'.raised)
            => /\ pc' = "raised"
               /\ exc' = "ValueError"
               /\ UNCHANGED <<files, dirs>>
        /\ (pc = "raised" /\ exc = "ValueError")
            => (run' = run + 1 /\ UNCHANGED <<files, dirs>>) ]_vars

\* C7 witness: the index page of the second type could not be fetched; the
\* first type has its directory, the second has none.
C7_Witness ==
    /\ step = "years_raised" /\ exc = "ValueError" /\ req.raised /\ ti = 2
    /\ DirPath(LEGISLATION_TYPES[1]) \in dirs
    /\ DirPath(LEGISLATION_TYPES[2]) \notin dirs

ResolvedYears(hrefs) ==
    LET kept == SelectSeq(hrefs, LAMBDA h : ~Contains(h, "-"))
    IN  [i \in 1..Len(kept) |-> UrlJoin(kept[i])]

\* C9: fetchAvailableYears returns the hrefs of the timeline that hold no
\* hyphen, in document order, each resolved against the site origin.
C9_YearsResolved ==
    (call.fn = "fetchAvailableYears" /\ call.out.kind = "return")
        => call.out.val = ResolvedYears(call.page.timeline.links)

\* C10: when the index page is fetched and has no timeline region, or a
\* timeline region without links, fetchAvailableYears returns [].
C10_NoTimelineNoYears ==
    ( /\ call.fn = "fetchAvailableYears"
      /\ ~call.resp.exc /\ call.resp.status = 200 /\ call.resp.marks = {}
      /\ (~call.page.timeline.found \/ call.page.timeline.links = <<>>) )
        => call.out = Return(<<>>)

\* The listing pages fetchAvailablePages is to fetch: the starting page and
\* the pages its pagination region links to.
PagesToVisit == {yearURL} \cup {UrlJoin(h) : h \in visit.nav}

\* C11: when fetchAvailablePages has fetched its last listing page, the URLs
\* it requested are the starting page and the links of the starting page's
\* pagination region, and none of them was requested twice.
C11_EachListingPageOnce ==
    (pc = "pages" /\ page_urls = {})
        => /\ Range(visit.urls) = PagesToVisit
           /\ NoDuplicates(visit.urls)

\* Path segments 4-6 of a URL, as line 109 takes them.
Segments(url) == Slice(Split(url, "/"), 4, 7)

\* C12: any two distinct DocumentURLs of the year being processed whose path
\* segments 4-6 differ get different file names.
C12_DistinctFileNames ==
    \A i, j \in 1..Len(pageURLs) :
        (pageURLs[i] # pageURLs[j] /\ Segments(pageURLs[i]) # Segments(pageURLs[j]))
            => FileName(YearOf(yearURL), pageURLs[i])
                 # FileName(YearOf(yearURL), pageURLs[j])

\* C13: in a run that follows a run in which every document was fetched and
\* written (and there was one), no step issues a network request, and no
\* file is created or changed.
C13_RerunIssuesNoRequest ==
    [][ (prior /\ \E path \in DOMAIN files : IsDocPath(path))
          => (req' = NoRequest /\ files' = files) ]_vars

\* The body of a successful fetch of a document.
CompleteBody(text) ==
    \E html \in DocResults : html.kind = "return" /\ text = html.val

\* C14: in a run that follows a terminated run, when main comes to a document
\* whose path does not hold the complete body of a successful fetch, it
\* fetches the document (unless the process is terminated there again).
C14_IncompleteFetchedAgain ==
    [][ ( /\ run > 1 /\ pc = "docs" /\ pageURLs # <<>>
          /\ ~(file_path \in DOMAIN files /\ CompleteBody(files[file_path]))
          /\ pc' # "killed" )
          => req' = SleptRequest(Head(pageURLs), req'.raised) ]_vars

\* C15: when a run has ended, by main returning or by an exception leaving
\* main, every URL whose fetch failed during the processing of the type the
\* run ended in is a line of that type's errorURL.txt.
C15_FailuresInErrorFile ==
    (pc \in {"done", "raised"} /\ failed # <<>>)
        => LET ef == IF pc = "done" THEN EndedErrorFile
                     ELSE ErrorFile(DirPath(Entry))
           IN  /\ ef \in DOMAIN files
               /\ Range(failed) \subseteq Range(Split(files[ef], "\n"))

\* C16: the list of DocumentURLs that fetchAvailablePages builds, which main
\* walks from its head, has no duplicates and is in ascending order of the
\* DocumentURL strings.
C16_SortedByDocumentURL ==
    call.fn = "DocumentURLs" =>
        LET urls == call.out.val
        IN  /\ NoDuplicates(urls)
            /\ \A i, j \in 1..Len(urls) : i < j => StrLess(urls[i], urls[j])

\* C17: when fetchAvailablePages returns, its result holds, each once, the
\* URL origin + h + /data.html of every href h that a table cell held on a
\* page it fetched, and nothing else; the pages it fetched are the starting
\* page and the pages its pagination region links to, so the starting page
\* alone when that region is missing or empty.
C17_ExactlyTheListedDocuments ==
    [][ (pc = "pages" /\ page_urls = {} /\ pc' = "docs")
          => /\ NoDuplicates(pageURLs')
             /\ Range(pageURLs')
                  = {BASE_URL \o h \o <<"/", "data.html">> : h \in visit.cells}
             /\ Range(visit.urls) = PagesToVisit
             /\ visit.nav = {} => visit.urls = <<yearURL>> ]_vars

\* C17 witness: fetchAvailablePages has returned two documents after
\* fetching the starting page and a second page.
C17_Witness ==
    /\ step = "listed"
    /\ Len(visit.urls) = 2 /\ visit.urls[1] # visit.urls[2]
    /\ Len(pageURLs) = 2
    /\ Range(pageURLs) = {DocumentURL(h) : h \in visit.cells}

C19_EveryDocumentAccounted ==
    [][ /\ (pc = "years" /\ yearURLs = <<>> /\ pc' # "killed")
            => \A d \in listed :
                 \/ d.path \in DOMAIN files'
                 \/ /\ wrote' = ErrorFile(DirPath(Entry))
                    /\ d.url \in Range(Split(files'[wrote'], "\n"))
        /\ (run' = run)
            => \A path \in DOMAIN files :
                 path.dir # DirPath(Entry)
                     => (path \in DOMAIN files' /\ files'[path] = files[path]) ]_vars

\* C19 witness: the first run has returned; the document of the first type
\* has its file, and the document of the last type is in the error file
\* written when that type ended.
C19_Witness ==
    /\ run = 1 /\ pc = "done" /\ step = "errors_written" /\ failed # <<>>
    /\ \E path \in DOMAIN files :
          IsDocPath(path) /\ path.dir = DirPath(LEGISLATION_TYPES[1])
    /\ \A path \in DOMAIN files :
          path.dir = DirPath(LEGISLATION_TYPES[ti - 1]) => ~IsDocPath(path)

====
